---- MODULE Spec2Model ----
(***************************************************************************)
(* Skill2Success (src/app.py): a Streamlit script whose session state      *)
(* walks landing_page -> quiz_page -> skillset_quiz_page ->                *)
(* career_map_page, and whose last page turns the generator's free-form    *)
(* reply into the rendered roadmap (psychometric answers, skills table,    *)
(* career paths, micro-projects, internship tips).                         *)
(*                                                                         *)
(* Python strings are TLA+ strings, read character by character with       *)
(* SubSeq and built with \o.  The backtick cannot be written in a TLA+     *)
(* string; it is written "~" here, and no other character of the model     *)
(* stands for "~".                                                         *)
(***************************************************************************)
EXTENDS Integers, Sequences, FiniteSets, TLC

(***************************************************************************)
(* Python str                                                              *)
(***************************************************************************)
Tick == "~"
Fence == Tick \o Tick \o Tick

UpperLetters == "ABCDEFGHIJKLMNOPQRSTUVWXYZ"
LowerLetters == "abcdefghijklmnopqrstuvwxyz"

\* s[i-1:j] of Python: the characters at positions i..j (1-based), clamped to s
Slice(s, i, j) ==
    LET lo == IF i < 1 THEN 1 ELSE i
        hi == IF j > Len(s) THEN Len(s) ELSE j
    IN  IF lo > hi THEN "" ELSE SubSeq(s, lo, hi)
CharAt(s, i) == Slice(s, i, i)
From(s, i) == Slice(s, i, Len(s))

\* the 1-based position of character c in alphabet, 0 when it is not there
IndexIn(c, alphabet) ==
    LET hits == {i \in 1..Len(alphabet) : CharAt(alphabet, i) = c}
    IN  IF hits = {} THEN 0 ELSE CHOOSE i \in hits : TRUE

Chars(alphabet) == {CharAt(alphabet, i) : i \in 1..Len(alphabet)}
UpperSet == Chars(UpperLetters)
LowerSet == Chars(LowerLetters)
LowerOf == [c \in UpperSet |-> CharAt(LowerLetters, IndexIn(c, UpperLetters))]
UpperOf == [c \in LowerSet |-> CharAt(UpperLetters, IndexIn(c, LowerLetters))]

LowerChar(c) == IF c \in UpperSet THEN LowerOf[c] ELSE c

UpperChar(c) == IF c \in LowerSet THEN UpperOf[c] ELSE c

RECURSIVE Lower(_)
\* str.lower(): each character lower-cased (the halves are lowered apart to
\* keep the recursion shallow on a long text)
Lower(s) ==
    IF Len(s) <= 1 THEN LowerChar(s)
    ELSE Lower(Slice(s, 1, Len(s) \div 2)) \o Lower(From(s, (Len(s) \div 2) + 1))

\* str.capitalize(): first character upper-cased, the rest lower-cased
Capitalize(s) == IF s = "" THEN "" ELSE UpperChar(CharAt(s, 1)) \o Lower(From(s, 2))

IsSpace(c) == c \in {" ", "\n", "\t", "\r"}

RECURSIVE LStrip(_)
LStrip(s) == IF s # "" /\ IsSpace(CharAt(s, 1)) THEN LStrip(From(s, 2)) ELSE s

RECURSIVE RStrip(_)
RStrip(s) ==
    IF s # "" /\ IsSpace(CharAt(s, Len(s))) THEN RStrip(Slice(s, 1, Len(s) - 1)) ELSE s

\* str.strip()
Strip(s) == RStrip(LStrip(s))

StartsWith(s, p) == Slice(s, 1, Len(p)) = p
EndsWith(s, p) == Len(s) >= Len(p) /\ Slice(s, Len(s) - Len(p) + 1, Len(s)) = p

RECURSIVE SplitFrom(_, _, _)
\* str.split(sep) for a one-character sep: cur is the piece being read
SplitFrom(s, sep, cur) ==
    IF s = "" THEN <<cur>>
    ELSE IF CharAt(s, 1) = sep THEN <<cur>> \o SplitFrom(From(s, 2), sep, "")
    ELSE SplitFrom(From(s, 2), sep, cur \o CharAt(s, 1))

Split(s, sep) == SplitFrom(s, sep, "")

RECURSIVE Join(_, _)
\* sep.join(parts)
Join(sep, parts) ==
    IF parts = <<>> THEN ""
    ELSE IF Len(parts) = 1 THEN parts[1]
    ELSE parts[1] \o sep \o Join(sep, Tail(parts))

(***************************************************************************)
(* Python values as json.loads produces them: None, bool, int, str, list   *)
(* and dict.  A value is a record [t, v]; a dict is the sequence of its    *)
(* items [k, v] in insertion order, keys distinct.                         *)
(***************************************************************************)
JNull == [t |-> "null", v |-> 0]
JBool(b) == [t |-> "bool", v |-> b]
JNum(n) == [t |-> "num", v |-> n]
JStr(s) == [t |-> "str", v |-> s]
JList(xs) == [t |-> "list", v |-> xs]
JObj(items) == [t |-> "obj", v |-> items]
Item(k, x) == [k |-> k, v |-> x]
EmptyDict == JObj(<<>>)
EmptyList == JList(<<>>)

IsDict(x) == x.t = "obj"
IsList(x) == x.t = "list"

\* bool(x)
Truthy(x) ==
    CASE x.t = "null" -> FALSE
      [] x.t = "bool" -> x.v
      [] x.t = "num" -> x.v # 0
      [] x.t = "str" -> x.v # ""
      [] x.t = "list" -> x.v # <<>>
      [] x.t = "obj" -> x.v # <<>>

\* a or b
Or(a, b) == IF Truthy(a) THEN a ELSE b

\* k in d
HasKey(d, k) == \E i \in 1..Len(d.v) : d.v[i].k = k

\* d.get(k, default)
GetDefault(d, k, default) ==
    IF HasKey(d, k) THEN d.v[CHOOSE i \in 1..Len(d.v) : d.v[i].k = k].v ELSE default

\* d.get(k)
Get(d, k) == GetDefault(d, k, JNull)

\* d[k] = x
SetItem(items, k, x) ==
    IF \E i \in 1..Len(items) : items[i].k = k
    THEN [i \in 1..Len(items) |-> IF items[i].k = k THEN Item(k, x) ELSE items[i]]
    ELSE Append(items, Item(k, x))

Digits == "0123456789"

RECURSIVE NumStr(_)
\* str(n) for an int n >= 0
NumStr(n) ==
    IF n < 10 THEN CharAt(Digits, n + 1)
    ELSE NumStr(n \div 10) \o CharAt(Digits, (n % 10) + 1)

RECURSIVE PyRepr(_)
RECURSIVE ReprElems(_)
RECURSIVE ReprItems(_)
\* repr(x); the strings of the model hold no quote and no backslash
PyRepr(x) ==
    CASE x.t = "null" -> "None"
      [] x.t = "bool" -> IF x.v THEN "True" ELSE "False"
      [] x.t = "num" -> NumStr(x.v)
      [] x.t = "str" -> "'" \o x.v \o "'"
      [] x.t = "list" -> "[" \o Join(", ", ReprElems(x.v)) \o "]"
      [] x.t = "obj" -> "{" \o Join(", ", ReprItems(x.v)) \o "}"
ReprElems(xs) == IF xs = <<>> THEN <<>> ELSE <<PyRepr(xs[1])>> \o ReprElems(Tail(xs))
ReprItems(items) ==
    IF items = <<>> THEN <<>>
    ELSE <<"'" \o items[1].k \o "': " \o PyRepr(items[1].v)>> \o ReprItems(Tail(items))

\* str(x), also what an f-string writes for {x}
PyStr(x) == IF x.t = "str" THEN x.v ELSE PyRepr(x)

(***************************************************************************)
(* json.loads on the characters the model writes: whitespace, null, true,  *)
(* false, unsigned integers, strings without escapes, arrays and objects.  *)
(* A parse result is [ok, val, pos]: pos is the first unread position.     *)
(***************************************************************************)
ParseFail == [ok |-> FALSE, val |-> JNull, pos |-> 0]
Parsed(val, pos) == [ok |-> TRUE, val |-> val, pos |-> pos]

IsJsonSpace(c) == c \in {" ", "\n", "\t", "\r"}

RECURSIVE SkipWs(_, _)
SkipWs(s, i) == IF i <= Len(s) /\ IsJsonSpace(CharAt(s, i)) THEN SkipWs(s, i + 1) ELSE i

DigitSet == Chars(Digits)
IsDigit(c) == c \in DigitSet

RECURSIVE DigitsEnd(_, _)
\* the first position at or after i that holds no digit
DigitsEnd(s, i) == IF i <= Len(s) /\ IsDigit(CharAt(s, i)) THEN DigitsEnd(s, i + 1) ELSE i

RECURSIVE DigitsValue(_)
DigitsValue(d) ==
    IF d = "" THEN 0
    ELSE 10 * DigitsValue(Slice(d, 1, Len(d) - 1)) + (IndexIn(CharAt(d, Len(d)), Digits) - 1)

\* an integer: 0, or a non-zero digit and the digits after it
ParseNumber(s, i) ==
    LET e == IF CharAt(s, i) = "0" THEN i + 1 ELSE DigitsEnd(s, i)
    IN  Parsed(JNum(DigitsValue(Slice(s, i, e - 1))), e)

RECURSIVE StringEnd(_, _)
\* the position of the closing quote of the string whose text starts at i,
\* 0 when the text ends, or holds a control character, before one
StringEnd(s, i) ==
    IF i > Len(s) THEN 0
    ELSE IF CharAt(s, i) = "\"" THEN i
    ELSE IF CharAt(s, i) \in {"\n", "\t", "\r"} THEN 0
    ELSE StringEnd(s, i + 1)

\* s[i] is the opening quote
ParseString(s, i) ==
    LET e == StringEnd(s, i + 1)
    IN  IF e = 0 THEN ParseFail ELSE Parsed(JStr(Slice(s, i + 1, e - 1)), e + 1)

RECURSIVE ParseValue(_, _)
RECURSIVE ParseElems(_, _, _)
RECURSIVE ParseMembers(_, _, _)

ParseValue(s, i) ==
    LET c == CharAt(s, i)
    IN  IF i > Len(s) THEN ParseFail
        ELSE IF c = "{" THEN
            LET j == SkipWs(s, i + 1)
            IN  IF CharAt(s, j) = "}" THEN Parsed(EmptyDict, j + 1)
                ELSE ParseMembers(s, j, <<>>)
        ELSE IF c = "[" THEN
            LET j == SkipWs(s, i + 1)
            IN  IF CharAt(s, j) = "]" THEN Parsed(EmptyList, j + 1)
                ELSE ParseElems(s, j, <<>>)
        ELSE IF c = "\"" THEN ParseString(s, i)
        ELSE IF IsDigit(c) THEN ParseNumber(s, i)
        ELSE IF Slice(s, i, i + 3) = "null" THEN Parsed(JNull, i + 4)
        ELSE IF Slice(s, i, i + 3) = "true" THEN Parsed(JBool(TRUE), i + 4)
        ELSE IF Slice(s, i, i + 4) = "false" THEN Parsed(JBool(FALSE), i + 5)
        ELSE ParseFail

\* the elements of an array from position i (an element is due), acc read so far
ParseElems(s, i, acc) ==
    LET r == ParseValue(s, i)
        j == SkipWs(s, r.pos)
    IN  IF ~r.ok THEN ParseFail
        ELSE IF CharAt(s, j) = "]" THEN Parsed(JList(Append(acc, r.val)), j + 1)
        ELSE IF CharAt(s, j) = "," THEN ParseElems(s, SkipWs(s, j + 1), Append(acc, r.val))
        ELSE ParseFail

\* the members of an object from position i (a key is due), acc read so far;
\* a repeated key keeps its first place and takes the last value
ParseMembers(s, i, acc) ==
    LET k == IF CharAt(s, i) = "\"" THEN ParseString(s, i) ELSE ParseFail
        c == SkipWs(s, k.pos)
        r == ParseValue(s, SkipWs(s, c + 1))
        j == SkipWs(s, r.pos)
        items == SetItem(acc, k.val.v, r.val)
    IN  IF ~k.ok \/ CharAt(s, c) # ":" THEN ParseFail
        ELSE IF ~r.ok THEN ParseFail
        ELSE IF CharAt(s, j) = "}" THEN Parsed(JObj(items), j + 1)
        ELSE IF CharAt(s, j) = "," THEN ParseMembers(s, SkipWs(s, j + 1), items)
        ELSE ParseFail

\* json.loads(s): [ok, val]; ok is FALSE where json.loads raises
JsonLoads(s) ==
    LET r == ParseValue(s, SkipWs(s, 1))
    IN  IF r.ok /\ SkipWs(s, r.pos) = Len(s) + 1
        THEN [ok |-> TRUE, val |-> r.val]
        ELSE [ok |-> FALSE, val |-> JNull]

RECURSIVE Dumps(_)
RECURSIVE DumpElems(_)
RECURSIVE DumpItems(_)
\* the JSON text of a value, as the generator writes it
Dumps(x) ==
    CASE x.t = "null" -> "null"
      [] x.t = "bool" -> IF x.v THEN "true" ELSE "false"
      [] x.t = "num" -> NumStr(x.v)
      [] x.t = "str" -> "\"" \o x.v \o "\""
      [] x.t = "list" -> "[" \o Join(", ", DumpElems(x.v)) \o "]"
      [] x.t = "obj" -> "{" \o Join(", ", DumpItems(x.v)) \o "}"
DumpElems(xs) == IF xs = <<>> THEN <<>> ELSE <<Dumps(xs[1])>> \o DumpElems(Tail(xs))
DumpItems(items) ==
    IF items = <<>> THEN <<>>
    ELSE <<"\"" \o items[1].k \o "\": " \o Dumps(items[1].v)>> \o DumpItems(Tail(items))

(***************************************************************************)
(* career_map_page: the pure steps between the generator's reply and the   *)
(* rendered page.  A step that can raise returns [exc, out]: exc is TRUE   *)
(* where Python raises (AttributeError on .get/.items of a non-dict,       *)
(* TypeError on iterating a non-iterable or joining non-strings), and out  *)
(* is then empty.                                                          *)
(***************************************************************************)
Raised == [exc |-> TRUE, out |-> <<>>]
Returned(out) == [exc |-> FALSE, out |-> out]

\* lines 111-114: strip(), then re.sub(r"^```(?:json)?", "", IGNORECASE), then
\* re.sub(r"```$", ""), where $ also matches before a final newline
StripFences(response_text) ==
    LET stripped == Strip(response_text)
        opened ==
            IF StartsWith(stripped, Fence)
            THEN IF Lower(Slice(stripped, 4, 7)) = "json" THEN From(stripped, 8)
                 ELSE From(stripped, 4)
            ELSE stripped
    IN  IF EndsWith(opened, Fence) THEN Slice(opened, 1, Len(opened) - 3)
        ELSE IF EndsWith(opened, Fence \o "\n") THEN Slice(opened, 1, Len(opened) - 4) \o "\n"
        ELSE opened

\* line 116 without .lower(): only the lower-case tokens are caught
IsInvalidResponseCaseSensitive(response_text) ==
    response_text \in {"", "none", "null", "undefined"}

\* line 116
IsInvalidResponse(response_text) ==
    response_text = "" \/ Lower(response_text) \in {"none", "null", "undefined"}

\* for v in x: the values a for loop visits; a dict gives its keys, a str its
\* characters, anything else that is not a list raises TypeError
Iterate(x) ==
    CASE x.t = "list" -> Returned(x.v)
      [] x.t = "obj" -> Returned([i \in 1..Len(x.v) |-> JStr(x.v[i].k)])
      [] x.t = "str" -> Returned([i \in 1..Len(x.v) |-> JStr(CharAt(x.v, i))])
      [] OTHER -> Raised

\* line 125 with the fallbacks to 'roadmap' and to the whole reply
RoadmapRootWithFallback(career_data) ==
    IF ~IsDict(career_data) THEN Raised
    ELSE Returned(Or(Or(Get(career_data, "careerRoadmap"), Get(career_data, "roadmap")),
                     career_data))

\* line 125: career_data.get('careerRoadmap') or {}
RoadmapRoot(career_data) ==
    IF ~IsDict(career_data) THEN Raised
    ELSE Returned(Or(Get(career_data, "careerRoadmap"), EmptyDict))

\* lines 129-130: one line "- **q:** a" per echoed answer
PsychometricAnswers(career_data) ==
    LET profile == GetDefault(career_data, "studentProfile", EmptyDict)
        answers == GetDefault(profile, "psychometricAnswers", EmptyDict)
    IN  IF ~IsDict(profile) THEN Raised
        ELSE IF ~IsDict(answers) THEN Raised
        ELSE Returned([i \in 1..Len(answers.v) |->
                          [q |-> answers.v[i].k, a |-> PyStr(answers.v[i].v)]])

PriorityKeys == <<"highPriority", "mediumPriority", "lowPriority">>

\* lines 140-144
SkillRow(skill_item, priority) ==
    [Skill |-> GetDefault(skill_item, "skill", JStr("")),
     Priority |-> Capitalize(priority),
     Reason |-> GetDefault(skill_item, "reason", JStr(""))]

RECURSIVE TierRowsReversed(_, _)
\* lines 138-144 with each row inserted at the front instead of appended
TierRowsReversed(entries, priority) ==
    IF entries = <<>> THEN <<>>
    ELSE TierRowsReversed(Tail(entries), priority)
         \o (IF IsDict(entries[1]) THEN <<SkillRow(entries[1], priority)>> ELSE <<>>)

RECURSIVE TierRows(_, _)
\* lines 138-144 for one tier: a row per entry that is a dict, the others skipped
TierRows(entries, priority) ==
    IF entries = <<>> THEN <<>>
    ELSE (IF IsDict(entries[1]) THEN <<SkillRow(entries[1], priority)>> ELSE <<>>)
         \o TierRows(Tail(entries), priority)

RECURSIVE SkillRows(_, _)
\* lines 136-144: the tiers from the n-th on, in the order of PriorityKeys
SkillRows(skills_to_learn, n) ==
    IF n > Len(PriorityKeys) THEN Returned(<<>>)
    ELSE LET tier == Iterate(Or(Get(skills_to_learn, PriorityKeys[n]), EmptyList))
             rest == SkillRows(skills_to_learn, n + 1)
         IN  IF tier.exc THEN Raised
             ELSE IF rest.exc THEN Raised
             ELSE Returned(TierRows(tier.out, PriorityKeys[n]) \o rest.out)

\* line 152 / 154
FlatSkill(s) ==
    IF IsDict(s) THEN Or(Or(Get(s, "skill"), Get(s, "name")), JStr(PyStr(s)))
    ELSE JStr(PyStr(s))

\* lines 148-155
flatten_skills_for_display(skill_list) == [i \in 1..Len(skill_list) |-> FlatSkill(skill_list[i])]

NoSkills == [kind |-> "unset", rows |-> <<>>, text |-> ""]

\* lines 134-158: a table of rows, a comma-joined line, or the no-data notice
SkillsToLearn(roadmap) ==
    LET skills_to_learn == Or(Get(roadmap, "skillsToLearn"), EmptyDict)
        rows == SkillRows(skills_to_learn, 1)
        flat == flatten_skills_for_display(skills_to_learn.v)
    IN  IF ~IsDict(roadmap) THEN [exc |-> TRUE, out |-> NoSkills]
        ELSE IF IsDict(skills_to_learn) THEN
            IF rows.exc THEN [exc |-> TRUE, out |-> NoSkills]
            ELSE Returned([kind |-> "table", rows |-> rows.out, text |-> ""])
        ELSE IF IsList(skills_to_learn) THEN
            IF \E i \in 1..Len(flat) : flat[i].t # "str" THEN [exc |-> TRUE, out |-> NoSkills]
            ELSE Returned([kind |-> "text", rows |-> <<>>,
                           text |-> Join(", ", [i \in 1..Len(flat) |-> flat[i].v])])
        ELSE Returned([kind |-> "none", rows |-> <<>>, text |-> ""])

\* lines 164-169 and 177-182: the title and description of one entry; alias is
\* the second key a dict entry's title is looked up under
EntryTitle(entry, alias) ==
    IF IsDict(entry) THEN Or(Get(entry, "title"), Get(entry, alias)) ELSE JStr(PyStr(entry))

EntryDesc(entry) ==
    IF IsDict(entry) THEN GetDefault(entry, "description", JStr("")) ELSE JStr("")

\* lines 170 and 183 with the title trimmed before the test
IsShownTrimmed(title) ==
    Truthy(title) /\ Strip(PyStr(title)) # "" /\ Lower(Strip(PyStr(title))) # "none"

\* lines 170 and 183: title and str(title).lower() != "none"
IsShown(title) == Truthy(title) /\ Lower(PyStr(title)) # "none"

RECURSIVE ShownEntries(_, _, _)
\* the entries from the i-th on that are shown, each with its 1-based position
ShownEntries(entries, alias, i) ==
    IF i > Len(entries) THEN <<>>
    ELSE (IF IsShown(EntryTitle(entries[i], alias))
          THEN <<[num |-> i,
                  title |-> PyStr(EntryTitle(entries[i], alias)),
                  desc |-> EntryDesc(entries[i])]>>
          ELSE <<>>)
         \o ShownEntries(entries, alias, i + 1)

\* lines 162-171 with the snake_case spelling read when the camelCase one is absent
RecommendedCareerPathsAliased(roadmap) ==
    LET found == IF HasKey(roadmap, "recommendedCareerPaths")
                 THEN Get(roadmap, "recommendedCareerPaths")
                 ELSE Get(roadmap, "recommended_career_paths")
        rec_careers == Iterate(Or(found, EmptyList))
    IN  IF rec_careers.exc THEN Raised
        ELSE Returned(ShownEntries(rec_careers.out, "path", 1))

\* lines 162-171: "### title\ndesc" per shown career (the position is not shown)
RecommendedCareerPaths(roadmap) ==
    LET rec_careers == Iterate(Or(Get(roadmap, "recommendedCareerPaths"), EmptyList))
    IN  IF rec_careers.exc THEN Raised
        ELSE Returned(ShownEntries(rec_careers.out, "path", 1))

\* lines 175-185 with the projects numbered as they are shown, 1..K
SuggestedMicroProjectsRenumbered(roadmap) ==
    LET projects == Iterate(Or(Get(roadmap, "suggestedMicroProjects"), EmptyList))
        shown_projects == ShownEntries(projects.out, "project", 1)
    IN  IF projects.exc THEN Raised
        ELSE Returned([j \in 1..Len(shown_projects) |-> [shown_projects[j] EXCEPT !.num = j]])

\* lines 175-185: an expander "i+1. title" holding desc per shown project
SuggestedMicroProjects(roadmap) ==
    LET projects == Iterate(Or(Get(roadmap, "suggestedMicroProjects"), EmptyList))
    IN  IF projects.exc THEN Raised
        ELSE Returned(ShownEntries(projects.out, "project", 1))

\* lines 189-191: "i+1. tip" per tip
TipsForInternships(roadmap) ==
    LET tips == Iterate(Or(Get(roadmap, "tipsForInternshipsOrHandsOnExperience"), EmptyList))
    IN  IF tips.exc THEN Raised
        ELSE Returned([i \in 1..Len(tips.out) |-> [num |-> i, text |-> PyStr(tips.out[i])]])

Unset == [t |-> "unset", v |-> 0]

Sections == {"psychometric", "skills", "careers", "projects", "tips"}

\* what one run of lines 108-191 leaves on the page
PageOf(status, text, data, root, produced, psy, skills, careers, projects, tips) ==
    [status |-> status, candidate_text |-> text, career_data |-> data, roadmap |-> root,
     produced |-> produced, psychometric_out |-> psy, skills_out |-> skills,
     careers_out |-> careers, projects_out |-> projects, tips_out |-> tips]

BlankPage == PageOf("none", "", Unset, Unset, {}, <<>>, NoSkills, <<>>, <<>>, <<>>)

\* lines 125-191 on the parsed reply: the sections in source order, each one
\* rendered unless a line before it raised
RenderRoadmap(text, career_data) ==
    LET root == RoadmapRoot(career_data)
        psy == PsychometricAnswers(career_data)
        skills == SkillsToLearn(root.out)
        careers == RecommendedCareerPaths(root.out)
        projects == SuggestedMicroProjects(root.out)
        tips == TipsForInternships(root.out)
    IN  IF root.exc THEN
            PageOf("exception", text, career_data, Unset, {}, <<>>, NoSkills, <<>>, <<>>, <<>>)
        ELSE IF psy.exc THEN
            PageOf("exception", text, career_data, root.out, {},
                   <<>>, NoSkills, <<>>, <<>>, <<>>)
        ELSE IF skills.exc THEN
            PageOf("exception", text, career_data, root.out, {"psychometric"},
                   psy.out, NoSkills, <<>>, <<>>, <<>>)
        ELSE IF careers.exc THEN
            PageOf("exception", text, career_data, root.out, {"psychometric", "skills"},
                   psy.out, skills.out, <<>>, <<>>, <<>>)
        ELSE IF projects.exc THEN
            PageOf("exception", text, career_data, root.out,
                   {"psychometric", "skills", "careers"},
                   psy.out, skills.out, careers.out, <<>>, <<>>)
        ELSE IF tips.exc THEN
            PageOf("exception", text, career_data, root.out,
                   {"psychometric", "skills", "careers", "projects"},
                   psy.out, skills.out, careers.out, projects.out, <<>>)
        ELSE
            PageOf("rendered", text, career_data, root.out, Sections,
                   psy.out, skills.out, careers.out, projects.out, tips.out)

\* lines 111-191: st.stop() on an invalid or unparsable reply, else the roadmap
RenderReply(response_text) ==
    LET text == StripFences(response_text)
        loaded == JsonLoads(text)
    IN  IF IsInvalidResponse(text) THEN
            PageOf("invalid_response", text, Unset, Unset, {}, <<>>, NoSkills, <<>>, <<>>, <<>>)
        ELSE IF ~loaded.ok THEN
            PageOf("parse_failed", text, Unset, Unset, {}, <<>>, NoSkills, <<>>, <<>>, <<>>)
        ELSE RenderRoadmap(text, loaded.val)

(***************************************************************************)
(* skillset_quiz_page and psychometric_test_page: the widgets' values      *)
(***************************************************************************)
skill_options ==
    {"Python", "JavaScript", "Machine Learning", "Data Analysis",
     "React", "Node.js", "SQL", "Cloud Computing", "DevOps",
     "UI/UX Design", "Communication", "Project Management"}

\* lines 47-52: the options of each question, in order
questions ==
    << <<"Independently", "In a team", "Depends on the task">>,
       <<"Learning new things", "Achieving goals", "Helping others", "Recognition">>,
       <<"Yes", "No", "Sometimes">>,
       <<"Face them head-on", "Seek help", "Avoid if possible", "Analyze and plan">> >>

RECURSIVE StrippedNonEmpty(_)
\* [s.strip() for s in parts if s.strip()]
StrippedNonEmpty(parts) ==
    IF parts = <<>> THEN <<>>
    ELSE (IF Strip(parts[1]) # "" THEN <<Strip(parts[1])>> ELSE <<>>)
         \o StrippedNonEmpty(Tail(parts))

\* lines 70-73 without the "if s.strip()" filter
additional_skills_list_unfiltered(additional_skills) ==
    LET parts == Split(additional_skills, ",")
    IN  IF additional_skills # "" THEN [i \in 1..Len(parts) |-> Strip(parts[i])] ELSE <<>>

\* lines 70-73
additional_skills_list(additional_skills) ==
    IF additional_skills # "" THEN StrippedNonEmpty(Split(additional_skills, ",")) ELSE <<>>

Range(seq) == {seq[i] : i \in 1..Len(seq)}

\* the lists that hold each member of S once: list(set(...)) fixes no order
ListsOf(S) ==
    {q \in [1..Cardinality(S) -> S] : \A i, j \in 1..Cardinality(S) : q[i] = q[j] => i = j}

\* line 74: list(set(selected_skills + additional_skills_list)), in any order
all_skills(selected, additional_skills) ==
    ListsOf(selected \cup Range(additional_skills_list(additional_skills)))

(***************************************************************************)
(* The session.  st.session_state holds page, psychometric_answers and     *)
(* selected_skills; a key that is not set reads as its .get default, and   *)
(* page reads as NoPage until main sets it.  Every action below is one run *)
(* of the script (main), except that a run of career_map_page is two       *)
(* steps: up to the generator's reply, and from the reply to the end.      *)
(***************************************************************************)
VARIABLES
    page,                  \* st.session_state['page']
    psychometric_answers,  \* st.session_state['psychometric_answers']: an answer per question
    selected_skills,       \* st.session_state['selected_skills']
    shown,                 \* the page function the last run executed: its buttons are on screen
    notice,                \* the st.error of the last run on the quiz pages
    pc,                    \* "idle", or "generating" while chat.send_message is awaited
    prompt,                \* the profile the generator was last called with
    response_text,         \* response.text of the last call
    roadmap_page,          \* what lines 108-191 rendered in the last run
    graph_builder          \* the skill-career graph builder: its input, its step, its graph

vars == <<page, psychometric_answers, selected_skills, shown, notice, pc, prompt,
          response_text, roadmap_page, graph_builder>>

\* no graph is being built
NoGraph ==
    [step |-> "idle", user_skills |-> <<>>,
     roadmap |-> [careers |-> <<>>, skillsByTier |-> <<<<>>, <<>>, <<>>>>],
     nodes |-> {}, edges |-> {}]

NoPage == "(not set)"
Pages == {"landing_page", "quiz_page", "skillset_quiz_page", "career_map_page"}
NoPrompt == [answers |-> <<>>, skills |-> <<>>]

\* the replies the generator gives in the session's runs
SessionReplies ==
    {"null",
     "{}",
     Fence \o "json\n{\"careerRoadmap\": {\"tipsForInternshipsOrHandsOnExperience\": [\"Apply early\"]}}\n" \o Fence}

\* the radio choices explored: one of the first MaxOptions options of each question
MaxOptions == 2
Min(a, b) == IF a < b THEN a ELSE b
AnswerChoices ==
    {a \in [1..Len(questions) -> UNION {Range(questions[q]) : q \in 1..Len(questions)}] :
        \A q \in 1..Len(questions) :
            \E o \in 1..Min(MaxOptions, Len(questions[q])) : a[q] = questions[q][o]}

\* the multiselect choices explored: any of these options, in any number
Selections == SUBSET {"Python", "SQL"}

RECURSIVE StringsUpTo(_, _)
\* the strings of at most n characters of alphabet
StringsUpTo(alphabet, n) ==
    IF n = 0 THEN {""}
    ELSE LET shorter == StringsUpTo(alphabet, n - 1)
         IN  shorter \cup {s \o c : s \in shorter, c \in alphabet}

\* the text-input values explored: every string of at most MaxTyped of these
\* characters, and two that name an option of the multiselect
MaxTyped == 3
TypedSkills == StringsUpTo({"a", ",", " "}, MaxTyped) \cup {"SQL", " SQL ,a"}

Init ==
    /\ page = NoPage
    /\ psychometric_answers = <<>>
    /\ selected_skills = <<>>
    /\ shown = NoPage
    /\ notice = "none"
    /\ pc = "idle"
    /\ prompt = NoPrompt
    /\ response_text = ""
    /\ roadmap_page = BlankPage
    /\ graph_builder = NoGraph

\* lines 194-198 and landing_page: clicked is st.button's return value
RunLandingPage(clicked) ==
    /\ pc = "idle"
    /\ page \in {NoPage, "landing_page"}
    /\ clicked => shown = "landing_page"
    /\ page' = IF clicked THEN "quiz_page" ELSE "landing_page"
    /\ shown' = "landing_page"
    /\ notice' = "none"
    /\ UNCHANGED <<psychometric_answers, selected_skills, pc, prompt, response_text,
                   roadmap_page, graph_builder>>

\* lines 199-200 and psychometric_test_page
RunPsychometricTestPage(clicked, answers) ==
    /\ pc = "idle"
    /\ page = "quiz_page"
    /\ clicked => shown = "quiz_page"
    /\ psychometric_answers' = IF clicked THEN answers ELSE psychometric_answers
    /\ page' = IF clicked THEN "skillset_quiz_page" ELSE page
    /\ shown' = "quiz_page"
    /\ notice' = "none"
    /\ UNCHANGED <<selected_skills, pc, prompt, response_text, roadmap_page, graph_builder>>

\* lines 75-80: what the click stores, given the list line 74 built
StoreSkills(skills) ==
    IF skills = <<>>
    THEN /\ notice' = "no_skill_selected"
         /\ UNCHANGED <<selected_skills, page>>
    ELSE /\ notice' = "none"
         /\ selected_skills' = skills
         /\ page' = "career_map_page"

\* lines 201-202 and skillset_quiz_page
RunSkillsetQuizPage(clicked, selected, additional_skills) ==
    /\ pc = "idle"
    /\ page = "skillset_quiz_page"
    /\ clicked => shown = "skillset_quiz_page"
    /\ IF clicked
       THEN \E skills \in all_skills(selected, additional_skills) : StoreSkills(skills)
       ELSE /\ notice' = "none"
            /\ UNCHANGED <<selected_skills, page>>
    /\ shown' = "skillset_quiz_page"
    /\ UNCHANGED <<psychometric_answers, pc, prompt, response_text, roadmap_page,
                   graph_builder>>

\* lines 203-204 and 84-106: the run of career_map_page up to the reply
CallGenerator(replies) ==
    /\ pc = "idle"
    /\ page = "career_map_page"
    /\ shown' = "career_map_page"
    /\ roadmap_page' = BlankPage
    /\ IF selected_skills = <<>>
       THEN /\ notice' = "no_skills_found"
            /\ UNCHANGED <<pc, prompt, response_text>>
       ELSE /\ notice' = "none"
            /\ prompt' = [answers |-> psychometric_answers, skills |-> selected_skills]
            /\ response_text' \in replies
            /\ pc' = "generating"
    /\ UNCHANGED <<page, psychometric_answers, selected_skills, graph_builder>>

\* lines 108-191: the rest of that run
RenderResponse ==
    /\ pc = "generating"
    /\ roadmap_page' = RenderReply(response_text)
    /\ pc' = "idle"
    /\ UNCHANGED <<page, psychometric_answers, selected_skills, shown, notice, prompt,
                   response_text, graph_builder>>


(***************************************************************************)
(* The replies the roadmap page is checked on: JSON texts of payloads of   *)
(* every shape a section can take, the same wrapped in code fences and     *)
(* whitespace, the null-like tokens in every letter case, and every short  *)
(* string of JSON punctuation.                                             *)
(***************************************************************************)
MaxLen == 2    \* the longest list of entries in a section
MaxRaw == 2    \* the longest string of raw punctuation

RECURSIVE SeqsUpTo(_, _)
\* the sequences of at most n members of S
SeqsUpTo(S, n) ==
    IF n = 0 THEN {<<>>}
    ELSE LET shorter == SeqsUpTo(S, n - 1)
         IN  shorter \cup {Append(q, e) : q \in shorter, e \in S}

Obj1(k, x) == JObj(<<Item(k, x)>>)
Obj2(k1, x1, k2, x2) == JObj(<<Item(k1, x1), Item(k2, x2)>>)

RECURSIVE SnakeCase(_)
\* the snake_case spelling of a camelCase key
SnakeCase(k) ==
    IF k = "" THEN ""
    ELSE LET c == CharAt(k, 1)
         IN  (IF c \in UpperSet THEN "_" \o LowerChar(c) ELSE c)
             \o SnakeCase(From(k, 2))

SectionKeys ==
    {"recommendedCareerPaths", "skillsToLearn", "suggestedMicroProjects",
     "tipsForInternshipsOrHandsOnExperience"}
AliasedKeys == SectionKeys \cup Range(PriorityKeys)

RECURSIVE RespelledItems(_, _, _)
\* the items of a dict with each key of K respelled in snake_case; where both
\* spellings end up present the later item's value stays
RespelledItems(items, K, acc) ==
    IF items = <<>> THEN acc
    ELSE RespelledItems(Tail(items), K,
                        SetItem(acc,
                                IF items[1].k \in K THEN SnakeCase(items[1].k) ELSE items[1].k,
                                items[1].v))

\* root with its skillsToLearn dict, if any, replaced by f of it
OnTiers(root, f(_)) ==
    JObj([i \in 1..Len(root.v) |->
            IF root.v[i].k = "skillsToLearn" /\ IsDict(root.v[i].v)
            THEN Item(root.v[i].k, f(root.v[i].v))
            ELSE root.v[i]])

\* root with the section keys and tier keys of K respelled in snake_case
RespelledRoot(root, K) ==
    LET OneLevel(d) == JObj(RespelledItems(d.v, K, <<>>))
    IN  OneLevel(OnTiers(root, OneLevel))

\* root with the section keys and tier keys of K deleted
StrippedRoot(root, K) ==
    LET OneLevel(d) == JObj(SelectSeq(d.v, LAMBDA it : it.k \notin K))
    IN  OneLevel(OnTiers(root, OneLevel))

\* values of every Python type, falsy and truthy, to stand where a section,
\* a root or a profile is expected
OddValues ==
    {JNull, JNum(0), JNum(5), JBool(TRUE), JStr(""), JStr("ab"),
     EmptyDict, Obj1("k", JNum(1)), EmptyList}

\* career and project entries: bare scalars, and dicts with the title under
\* "title", under the alias, under both or under neither
ListEntries(alias) ==
    {JStr(""), JStr("NONE"), JStr(" none "), JStr("Dev"), JNull, JNum(0),
     Obj1("title", JStr("None")),
     Obj1("title", JStr(" ")),
     Obj2("title", JStr("Dev"), "description", JStr("d")),
     Obj1(alias, JStr("Ops")),
     Obj2("title", JStr(""), alias, JStr("Ops")),
     EmptyDict}

SkillEntries ==
    {JStr("SQL"), JNull,
     Obj2("skill", JStr("SQL"), "reason", JStr("widely used")),
     Obj1("name", JStr("Go")), EmptyDict}

TipEntries == {JStr("Apply early"), JStr("Network"), JNum(5), JNull}

ListsOver(entries) == {JList(q) : q \in SeqsUpTo(entries, MaxLen)}

\* a dict of the given optional members: a member whose value is Unset is left out
RECURSIVE WithoutUnset(_)
WithoutUnset(items) ==
    IF items = <<>> THEN <<>>
    ELSE (IF items[1].v = Unset THEN <<>> ELSE <<items[1]>>) \o WithoutUnset(Tail(items))
ObjOf(items) == JObj(WithoutUnset(items))

TieredSkills ==
    {ObjOf(<<Item("highPriority", h), Item("mediumPriority", m), Item("lowPriority", l)>>) :
        h \in ListsOver(SkillEntries) \cup {Unset, JNum(5), JStr("ab")},
        m \in {Unset, JList(<<Obj1("skill", JStr("Py"))>>), JList(<<JStr("R")>>), JNum(5)},
        l \in {Unset, JList(<<Obj2("skill", JStr("C"), "reason", JStr("r"))>>), JStr("ab")}}

\* roadmaps with one section, of every shape
OneSectionRoadmaps ==
    {Obj1("recommendedCareerPaths", x) : x \in ListsOver(ListEntries("path")) \cup OddValues}
    \cup {Obj1("suggestedMicroProjects", x) :
            x \in ListsOver(ListEntries("project")) \cup OddValues}
    \cup {Obj1("tipsForInternshipsOrHandsOnExperience", x) :
            x \in ListsOver(TipEntries) \cup OddValues}
    \cup {Obj1("skillsToLearn", x) :
            x \in TieredSkills \cup ListsOver(SkillEntries) \cup OddValues}

\* a roadmap with all four sections
FullRoadmap ==
    JObj(<<Item("recommendedCareerPaths",
                JList(<<Obj1("title", JStr("None")),
                        Obj2("title", JStr("Data Analyst"), "description", JStr("x"))>>)),
           Item("skillsToLearn",
                JObj(<<Item("highPriority",
                            JList(<<Obj2("skill", JStr("SQL"), "reason", JStr("widely used")),
                                    JStr("Python"),
                                    Obj1("skill", JStr("Excel"))>>)),
                       Item("mediumPriority", JList(<<Obj1("skill", JStr("Go"))>>)),
                       Item("lowPriority", JList(<<Obj1("name", JStr("R"))>>))>>)),
           Item("suggestedMicroProjects",
                JList(<<JStr("none"), Obj1("project", JStr("Dashboard"))>>)),
           Item("tipsForInternshipsOrHandsOnExperience",
                JList(<<JStr("Apply early"), JStr("Network")>>))>>)

\* the full roadmap under every mix of camelCase and snake_case spellings
RespelledRoadmaps == {RespelledRoot(FullRoadmap, K) : K \in SUBSET AliasedKeys}

\* both spellings of a key at once, with different values
TwiceSpelledRoadmaps ==
    {Obj2("recommendedCareerPaths", a, "recommended_career_paths", b) :
        a \in {EmptyList, JNull, JList(<<JStr("Dev")>>)}, b \in {JList(<<JStr("Ops")>>)}}
    \cup {Obj1("skillsToLearn",
               Obj2("highPriority", a, "high_priority", JList(<<Obj1("skill", JStr("Go"))>>))) :
            a \in {EmptyList, JList(<<Obj1("skill", JStr("SQL"))>>)}}

Profiles ==
    OddValues
    \cup {Obj1("psychometricAnswers", y) :
            y \in OddValues \cup {Obj2("How do you prefer working?", JStr("In a team"),
                                       "q2", JNum(5))}}

\* the parsed replies: the roadmap under careerRoadmap, under roadmap, at top
\* level; roots and profiles of every shape; values that are no object
Payloads ==
    {Obj1("careerRoadmap", r) : r \in OneSectionRoadmaps \cup TwiceSpelledRoadmaps \cup OddValues}
    \cup {Obj1(k, r) : k \in {"careerRoadmap", "roadmap", "career_roadmap"},
                       r \in RespelledRoadmaps}
    \cup RespelledRoadmaps
    \cup {Obj2("careerRoadmap", a, "roadmap", FullRoadmap) :
            a \in {JNull, EmptyDict, Obj1("tipsForInternshipsOrHandsOnExperience",
                                          JList(<<JStr("Network")>>))}}
    \cup {Obj2("extra", JNum(1), "careerRoadmap", FullRoadmap)}
    \cup {Obj1("studentProfile", x) : x \in Profiles}
    \cup {Obj2("studentProfile", x, "careerRoadmap", FullRoadmap) : x \in Profiles}
    \cup OddValues

RECURSIVE CaseVariants(_)
\* s in every mix of upper and lower case
CaseVariants(s) ==
    IF s = "" THEN {""}
    ELSE {c \o rest : c \in {LowerChar(CharAt(s, 1)), UpperChar(CharAt(s, 1))},
                      rest \in CaseVariants(From(s, 2))}

SentinelTexts ==
    CaseVariants("none") \cup CaseVariants("null")
    \cup {"undefined", "Undefined", "UNDEFINED", "unDefined"}

\* texts close to a sentinel or to JSON that are neither
NearTexts ==
    {"nul", "nulll", "none null", "no ne", "undefine", "true", "false", "True", "12", "012",
     "\"none\"", "{\"careerRoadmap\": }", "{\"careerRoadmap\": {}", "[1, ]", "{} {}"}

\* a reply body as the generator may wrap it: bare, padded, fenced with and
\* without the language tag, fenced on lines of its own, fence left open
Wrappings(body) ==
    {body,
     " \n" \o body \o "\n ",
     Fence \o body \o Fence,
     Fence \o "json" \o body \o Fence,
     Fence \o "JSON\n" \o body \o "\n" \o Fence \o "\n",
     Fence \o "\n" \o body \o "\n" \o Fence,
     Fence \o "json\n" \o body,
     body \o Fence \o Fence}

WrappedBodies ==
    SentinelTexts \cup NearTexts
    \cup {"", Dumps(EmptyDict), Dumps(JNum(5)), Dumps(Obj1("careerRoadmap", FullRoadmap))}

Replies ==
    {Dumps(x) : x \in Payloads}
    \cup UNION {Wrappings(body) : body \in WrappedBodies}
    \cup StringsUpTo({"{", "}", "[", "]", "\"", ",", "1", " "}, MaxRaw)

(***************************************************************************)
(* The roadmap page on its own: a session that reached career_map_page,    *)
(* one run of the page on each reply.                                      *)
(***************************************************************************)
InitRoadmap ==
    /\ page = "career_map_page"
    /\ psychometric_answers = <<"Independently", "Learning new things", "Yes", "Seek help">>
    /\ selected_skills = <<"SQL">>
    /\ shown = "skillset_quiz_page"
    /\ notice = "none"
    /\ pc = "idle"
    /\ prompt = NoPrompt
    /\ response_text = ""
    /\ roadmap_page = BlankPage
    /\ graph_builder = NoGraph

FirstCall == prompt = NoPrompt /\ CallGenerator(Replies)

NextRoadmap == FirstCall \/ RenderResponse

SpecRoadmap == InitRoadmap /\ [][NextRoadmap]_vars

(***************************************************************************)
(* Properties of the roadmap page (SpecRoadmap)                            *)
(***************************************************************************)
Ran == roadmap_page.status # "none"

\* the empty text and the tokens none, null, undefined in every letter case
SentinelTokens ==
    {""} \cup CaseVariants("none") \cup CaseVariants("null") \cup CaseVariants("undefined")

FalsyValues == {JNull, JBool(FALSE), JNum(0), JStr(""), EmptyList, EmptyDict}

NothingRendered ==
    /\ roadmap_page.produced = {}
    /\ roadmap_page.psychometric_out = <<>>
    /\ roadmap_page.skills_out = NoSkills
    /\ roadmap_page.careers_out = <<>>
    /\ roadmap_page.projects_out = <<>>
    /\ roadmap_page.tips_out = <<>>

\* C1: a run fails only when the fence-stripped text is empty, a sentinel token
\* or not valid JSON; on every text that parses as JSON, whatever its shape,
\* all five sections are rendered and nothing is raised.
C1_FailsOnlyOnUnparsableText ==
    Ran =>
        IF \/ roadmap_page.candidate_text \in SentinelTokens
           \/ ~JsonLoads(roadmap_page.candidate_text).ok
        THEN roadmap_page.status \in {"invalid_response", "parse_failed"}
        ELSE roadmap_page.status = "rendered" /\ roadmap_page.produced = Sections

\* C2: when the fence-stripped text is empty or one of the tokens none, null,
\* undefined in any letter case, the run ends with the invalid-response error:
\* nothing was parsed and no section was rendered.
C2_SentinelStopsBeforeParsing ==
    (Ran /\ roadmap_page.candidate_text \in SentinelTokens) =>
        /\ roadmap_page.status = "invalid_response"
        /\ roadmap_page.career_data = Unset
        /\ roadmap_page.roadmap = Unset
        /\ NothingRendered

\* a fenced reply whose body is NULL in upper case was refused
C2_Witness ==
    /\ roadmap_page.status = "invalid_response"
    /\ roadmap_page.candidate_text = "NULL"
    /\ response_text # "NULL"
    /\ roadmap_page.career_data = Unset

\* the root as C3 states it: careerRoadmap, else roadmap, else the whole object
ClaimedRoot(career_data) ==
    IF HasKey(career_data, "careerRoadmap") THEN Get(career_data, "careerRoadmap")
    ELSE IF HasKey(career_data, "roadmap") THEN Get(career_data, "roadmap")
    ELSE career_data

RootWasTaken == roadmap_page.roadmap # Unset

\* C3 as stated: the roadmap root of a parsed object is the value under
\* careerRoadmap if present, else the value under roadmap if present, else the
\* whole object.
C3_RootFallsBack ==
    RootWasTaken => roadmap_page.roadmap = ClaimedRoot(roadmap_page.career_data)

\* C3 as amended: the roadmap root of a parsed object is the value under
\* careerRoadmap when that key is present with a truthy value (not null, false,
\* 0, "", [] or {}), and an empty object otherwise; the key roadmap and
\* sections at the top level are not read.
C3_RootIsCareerRoadmapOrEmpty ==
    RootWasTaken =>
        LET present == HasKey(roadmap_page.career_data, "careerRoadmap")
            value == Get(roadmap_page.career_data, "careerRoadmap")
        IN  roadmap_page.roadmap =
                (IF present /\ value \notin FalsyValues THEN value ELSE EmptyDict)

\* a roadmap given under the key roadmap was parsed and rendered as empty
C3_Witness ==
    /\ roadmap_page.status = "rendered"
    /\ ~HasKey(roadmap_page.career_data, "careerRoadmap")
    /\ Get(roadmap_page.career_data, "roadmap") = FullRoadmap
    /\ roadmap_page.roadmap = EmptyDict
    /\ roadmap_page.careers_out = <<>>
    /\ roadmap_page.tips_out = <<>>

\* the keys of a dict, one level deep
KeysOf(d) == {d.v[i].k : i \in 1..Len(d.v)}

\* the section keys of a root and the tier keys of its skillsToLearn that C4 renames
RenamableKeys(root) ==
    (KeysOf(root) \cap SectionKeys)
    \cup (IF IsDict(Get(root, "skillsToLearn"))
          THEN KeysOf(Get(root, "skillsToLearn")) \cap Range(PriorityKeys)
          ELSE {})

\* the four normalized sections of a root
NormalizedSections(root) ==
    << SkillsToLearn(root), RecommendedCareerPaths(root),
       SuggestedMicroProjects(root), TipsForInternships(root) >>

RootIsDict == RootWasTaken /\ IsDict(roadmap_page.roadmap)

SourceList(key) ==
    IF RootIsDict /\ IsList(Get(roadmap_page.roadmap, key))
    THEN Get(roadmap_page.roadmap, key).v
    ELSE <<>>

\* the section was rendered from a list
RenderedFromList(section, key) ==
    /\ section \in roadmap_page.produced
    /\ IsList(Get(roadmap_page.roadmap, key))

Increasing(out) == \A j, k \in 1..Len(out) : j < k => out[j].num < out[k].num

\* out holds exactly the entries of source that Excluded does not exclude, each
\* under its resolved title, in the order of source
KeepsAllBut(Excluded(_), source, alias, out) ==
    /\ {out[j].num : j \in 1..Len(out)}
           = {i \in 1..Len(source) : ~Excluded(EntryTitle(source[i], alias))}
    /\ Increasing(out)
    /\ \A j \in 1..Len(out) : out[j].title = PyStr(EntryTitle(source[out[j].num], alias))

\* C5's rule: the title, trimmed, is empty or is "none" in any letter case
ExcludedTrimmed(title) ==
    LET text == IF title = JNull THEN "" ELSE PyStr(title)
    IN  Strip(text) = "" \/ Strip(text) \in CaseVariants("none")

\* the rule without trimming: the title is missing or falsy, or its text is
\* "none" in any letter case
ExcludedUntrimmed(title) == title \in FalsyValues \/ PyStr(title) \in CaseVariants("none")

\* C5 as stated: of a list of career paths or micro-projects, an entry is left
\* out exactly when its resolved title, trimmed, is empty or is "none" in any
\* letter case; the others are kept in their order.
C5_DropsTrimmedPlaceholders ==
    /\ RenderedFromList("careers", "recommendedCareerPaths") =>
         KeepsAllBut(ExcludedTrimmed, SourceList("recommendedCareerPaths"), "path",
                     roadmap_page.careers_out)
    /\ RenderedFromList("projects", "suggestedMicroProjects") =>
         KeepsAllBut(ExcludedTrimmed, SourceList("suggestedMicroProjects"), "project",
                     roadmap_page.projects_out)

\* C5 as amended: an entry is left out exactly when its resolved title is
\* missing or falsy (null, false, 0, "", [], {}) or its text is "none" in any
\* letter case, with no trimming: a title of whitespace only, or "none" inside
\* whitespace, is kept; the others are kept in their order.
C5_DropsUntrimmedPlaceholders ==
    /\ RenderedFromList("careers", "recommendedCareerPaths") =>
         KeepsAllBut(ExcludedUntrimmed, SourceList("recommendedCareerPaths"), "path",
                     roadmap_page.careers_out)
    /\ RenderedFromList("projects", "suggestedMicroProjects") =>
         KeepsAllBut(ExcludedUntrimmed, SourceList("suggestedMicroProjects"), "project",
                     roadmap_page.projects_out)

\* of the careers [{"title": "None"}, " none "] the first was dropped and the
\* second, untrimmed, was kept
C5_Witness ==
    /\ roadmap_page.status = "rendered"
    /\ SourceList("recommendedCareerPaths") = <<Obj1("title", JStr("None")), JStr(" none ")>>
    /\ Len(roadmap_page.careers_out) = 1
    /\ roadmap_page.careers_out[1].title = " none "

\* the entries of a tier given as a list, <<>> when it is not a list
TierList(priority) ==
    LET skills_to_learn == Get(roadmap_page.roadmap, "skillsToLearn")
    IN  IF IsDict(skills_to_learn) /\ IsList(Get(skills_to_learn, priority))
        THEN Get(skills_to_learn, priority).v
        ELSE <<>>

TableShown == "skills" \in roadmap_page.produced /\ roadmap_page.skills_out.kind = "table"

\* C6's skill item of a tier entry: the name under skill or, failing that,
\* name, with the reason, for an object; the text and no reason for a scalar
ClaimedSkillName(entry) ==
    IF ~IsDict(entry) THEN JStr(PyStr(entry))
    ELSE IF HasKey(entry, "skill") THEN Get(entry, "skill")
    ELSE Get(entry, "name")

ClaimedReason(entry) == IF IsDict(entry) THEN GetDefault(entry, "reason", JStr("")) ELSE JStr("")

\* C6: in a priority tier, an object entry and a bare scalar entry both yield a
\* skill item with their name, the object's with its reason; no tier entry is
\* lost because of the form it comes in.
C6_EveryTierEntryYieldsASkill ==
    TableShown =>
        LET entries == TierList("highPriority") \o TierList("mediumPriority")
                       \o TierList("lowPriority")
            rows == roadmap_page.skills_out.rows
        IN  /\ Len(rows) = Len(entries)
            /\ \A i \in 1..Len(entries) :
                   /\ rows[i].Skill = ClaimedSkillName(entries[i])
                   /\ rows[i].Reason = ClaimedReason(entries[i])

\* the positions of the entries of a tier that are objects
ObjectPositions(entries) == {i \in 1..Len(entries) : IsDict(entries[i])}

\* the rows of one tier are rows[offset+1 ..], one per object entry, in order
TierInOrder(rows, offset, entries, label) ==
    \A i \in ObjectPositions(entries) :
        LET rank == Cardinality({j \in ObjectPositions(entries) : j <= i})
        IN  /\ rows[offset + rank].Skill = GetDefault(entries[i], "skill", JStr(""))
            /\ rows[offset + rank].Reason = GetDefault(entries[i], "reason", JStr(""))
            /\ rows[offset + rank].Priority = label

\* C8: the skill rows come tier by tier, High then Medium then Low, and within a
\* tier in the order of the tier's list; the tips come in the order of their
\* list, numbered 1..N for a list of N tips.
C8_OutputFollowsInputOrder ==
    /\ TableShown =>
         LET high == TierList("highPriority")
             medium == TierList("mediumPriority")
             low == TierList("lowPriority")
             nh == Cardinality(ObjectPositions(high))
             nm == Cardinality(ObjectPositions(medium))
             nl == Cardinality(ObjectPositions(low))
             rows == roadmap_page.skills_out.rows
         IN  /\ Len(rows) = nh + nm + nl
             /\ TierInOrder(rows, 0, high, "Highpriority")
             /\ TierInOrder(rows, nh, medium, "Mediumpriority")
             /\ TierInOrder(rows, nh + nm, low, "Lowpriority")
    /\ RenderedFromList("tips", "tipsForInternshipsOrHandsOnExperience") =>
         LET tips == SourceList("tipsForInternshipsOrHandsOnExperience")
             out == roadmap_page.tips_out
         IN  /\ Len(out) = Len(tips)
             /\ \A i \in 1..Len(tips) : out[i].num = i /\ out[i].text = PyStr(tips[i])

\* the full roadmap was rendered: two High rows in list order around a skipped
\* scalar, then the Medium and the Low row, and the two tips numbered 1 and 2
C8_Witness ==
    /\ roadmap_page.status = "rendered"
    /\ roadmap_page.roadmap = FullRoadmap
    /\ Len(roadmap_page.skills_out.rows) = 4
    /\ roadmap_page.skills_out.rows[1].Skill = JStr("SQL")
    /\ roadmap_page.skills_out.rows[2].Skill = JStr("Excel")
    /\ roadmap_page.skills_out.rows[3].Priority = "Mediumpriority"
    /\ roadmap_page.skills_out.rows[4].Priority = "Lowpriority"
    /\ roadmap_page.tips_out = <<[num |-> 1, text |-> "Apply early"], [num |-> 2, text |-> "Network"]>>

\* C10: the number in front of a rendered micro-project is its 1-based place in
\* the raw suggestedMicroProjects list, dropped entries counted: the K numbers
\* shown for N entries increase strictly within 1..N, and they are 1..K only
\* if no dropped entry comes before a kept one.
C10_ProjectNumberIsRawPosition ==
    RenderedFromList("projects", "suggestedMicroProjects") =>
        LET projects == SourceList("suggestedMicroProjects")
            out == roadmap_page.projects_out
            kept == {out[j].num : j \in 1..Len(out)}
        IN     /\ kept \subseteq 1..Len(projects)
               /\ Increasing(out)
               /\ \A j \in 1..Len(out) :
                      /\ out[j].title = PyStr(EntryTitle(projects[out[j].num], "project"))
                      /\ out[j].desc = EntryDesc(projects[out[j].num])
               /\ \A i \in 1..Len(projects) : i \in kept <=> IsShown(EntryTitle(projects[i], "project"))
               /\ (\A j \in 1..Len(out) : out[j].num = j)
                      => ~\E d, k \in 1..Len(projects) : d < k /\ d \notin kept /\ k \in kept

\* of the projects ["none", {"project": "Dashboard"}] the one shown is numbered 2
C10_Witness ==
    /\ roadmap_page.status = "rendered"
    /\ SourceList("suggestedMicroProjects") = <<JStr("none"), Obj1("project", JStr("Dashboard"))>>
    /\ Len(roadmap_page.projects_out) = 1
    /\ roadmap_page.projects_out[1].num = 2
    /\ roadmap_page.projects_out[1].title = "Dashboard"

(***************************************************************************)
(* Properties of the session (Spec)                                        *)
(***************************************************************************)
Distinct(seq) == \A i, j \in 1..Len(seq) : seq[i] = seq[j] => i = j

\* non-empty, with no whitespace at either end
IsTrimmedName(name) ==
    /\ name # ""
    /\ CharAt(name, 1) \notin {" ", "\n", "\t", "\r"}
    /\ CharAt(name, Len(name)) \notin {" ", "\n", "\t", "\r"}

\* C9: the session's page, once a run has set it, is one of the four pages;
\* while it is career_map_page, selected_skills is a non-empty list of distinct,
\* non-empty, trimmed strings; so the generator is never called with an empty
\* skill list and career_map_page never takes its "No skills found" return.
C9_CareerMapPageHasSkills ==
    /\ page \in Pages \cup {NoPage}
    /\ shown # NoPage => page \in Pages
    /\ page = "career_map_page" =>
          /\ selected_skills # <<>>
          /\ Distinct(selected_skills)
          /\ \A i \in 1..Len(selected_skills) : IsTrimmedName(selected_skills[i])
    /\ prompt # NoPrompt => prompt.skills # <<>> /\ prompt.skills = selected_skills
    /\ notice # "no_skills_found"

\* Python and SQL selected and " SQL ,a" typed: the page was rendered from a
\* prompt with the three distinct skills
C9_Witness ==
    /\ page = "career_map_page"
    /\ Range(selected_skills) = {"Python", "SQL", "a"}
    /\ Len(selected_skills) = 3
    /\ prompt.skills = selected_skills
    /\ roadmap_page.status = "rendered"

Next ==
    \/ \E clicked \in BOOLEAN : RunLandingPage(clicked)
    \/ \E clicked \in BOOLEAN, answers \in AnswerChoices :
          RunPsychometricTestPage(clicked, answers)
    \/ \E clicked \in BOOLEAN, selected \in Selections, additional_skills \in TypedSkills :
          RunSkillsetQuizPage(clicked, selected, additional_skills)
    \/ CallGenerator(SessionReplies)
    \/ RenderResponse

Spec == Init /\ [][Next]_vars

(***************************************************************************)
(* The skill-career graph builder.  Its code is not among the sources; it  *)
(* is modelled from the specification (data model "Graph", and "Skill-     *)
(* Career Graph Builder" steps 1-4): the flat skill-name set is the        *)
(* user-selected skills and every skill name of the three tiers, the       *)
(* career-title set is every career title; a node per name, tagged Skill   *)
(* and re-tagged Career by a later assignment; an edge from every member   *)
(* of the skill-name set to every member of the career-title set.          *)
(***************************************************************************)
MaxTierSkills == 1   \* the longest tier of skill items given to the builder
MaxCareers == 2      \* the longest list of career paths given to the builder

GraphSkillItems == {[name |-> "SQL", rationale |-> "widely used"], [name |-> "Go", rationale |-> ""]}
GraphCareerPaths ==
    {[title |-> "Data Analyst", description |-> "x"], [title |-> "SQL", description |-> ""]}
GraphUserSkills == {<<>>, <<"SQL">>, <<"Python">>, <<"SQL", "Python">>, <<"Python", "SQL">>}

RECURSIVE FlatSkillNames(_, _)
\* step 1: the user-selected skills, then the names of the tiers from the n-th on
FlatSkillNames(user_skills, tiers) ==
    IF tiers = <<>> THEN Range(user_skills)
    ELSE {tiers[1][i].name : i \in 1..Len(tiers[1])} \cup FlatSkillNames(user_skills, Tail(tiers))

\* step 2: every career title
CareerTitles(careers) == {careers[i].title : i \in 1..Len(careers)}

\* step 3, one assignment: the node of that name takes the kind
AddNode(nodes, name, kind) ==
    {n \in nodes : n.id # name} \cup {[id |-> name, kind |-> kind]}

RECURSIVE AddNodes(_, _, _)
\* step 3 for every name of a set
AddNodes(nodes, names, kind) ==
    IF names = {} THEN nodes
    ELSE LET name == CHOOSE n \in names : TRUE
         IN  AddNodes(AddNode(nodes, name, kind), names \ {name}, kind)

\* step 4 without the skills that are also career titles
AddEdgesBetweenKinds(skill_names, career_titles) ==
    {<<s, c>> : s \in skill_names \ career_titles, c \in career_titles}

\* step 4: an edge from every skill name to every career title
AddEdges(skill_names, career_titles) == {<<s, c>> : s \in skill_names, c \in career_titles}

InitGraph ==
    /\ page = "career_map_page"
    /\ psychometric_answers = <<"Independently", "Learning new things", "Yes", "Seek help">>
    /\ selected_skills = <<"SQL">>
    /\ shown = "career_map_page"
    /\ notice = "none"
    /\ pc = "idle"
    /\ prompt = NoPrompt
    /\ response_text = ""
    /\ roadmap_page = BlankPage
    /\ \E user_skills \in GraphUserSkills,
          high \in SeqsUpTo(GraphSkillItems, MaxTierSkills),
          medium \in SeqsUpTo(GraphSkillItems, MaxTierSkills),
          low \in SeqsUpTo(GraphSkillItems, MaxTierSkills),
          careers \in SeqsUpTo(GraphCareerPaths, MaxCareers) :
            graph_builder =
                [step |-> "input", user_skills |-> user_skills,
                 roadmap |-> [careers |-> careers, skillsByTier |-> <<high, medium, low>>],
                 nodes |-> {}, edges |-> {}]

GraphSkillNames == FlatSkillNames(graph_builder.user_skills, graph_builder.roadmap.skillsByTier)
GraphCareerTitles == CareerTitles(graph_builder.roadmap.careers)

OtherThanGraph ==
    <<page, psychometric_answers, selected_skills, shown, notice, pc, prompt, response_text,
      roadmap_page>>

AddSkillNodes ==
    /\ graph_builder.step = "input"
    /\ graph_builder' =
          [graph_builder EXCEPT !.step = "skills",
                                !.nodes = AddNodes(@, GraphSkillNames, "Skill")]
    /\ UNCHANGED OtherThanGraph

AddCareerNodes ==
    /\ graph_builder.step = "skills"
    /\ graph_builder' =
          [graph_builder EXCEPT !.step = "careers",
                                !.nodes = AddNodes(@, GraphCareerTitles, "Career")]
    /\ UNCHANGED OtherThanGraph

AddGraphEdges ==
    /\ graph_builder.step = "careers"
    /\ graph_builder' =
          [graph_builder EXCEPT !.step = "done",
                                !.edges = AddEdges(GraphSkillNames, GraphCareerTitles)]
    /\ UNCHANGED OtherThanGraph

NextGraph == AddSkillNodes \/ AddCareerNodes \/ AddGraphEdges

SpecGraph == InitGraph /\ [][NextGraph]_vars

\* C7: the graph built from the skill-name set S and the career-title set C has
\* exactly the nodes S \cup C and exactly the edges (s, c) with s in S and c in
\* C; with C empty and S not, only skill nodes and no edge; with both empty, no
\* node, and the build ends all the same.
C7_GraphIsCompleteBipartite ==
    LET S == Range(graph_builder.user_skills)
             \cup UNION {{graph_builder.roadmap.skillsByTier[t][i].name :
                            i \in 1..Len(graph_builder.roadmap.skillsByTier[t])} : t \in 1..3}
        C == {graph_builder.roadmap.careers[i].title :
                i \in 1..Len(graph_builder.roadmap.careers)}
        ids == {n.id : n \in graph_builder.nodes}
    IN  /\ graph_builder.step = "done" =>
            /\ ids = S \cup C
            /\ Cardinality(graph_builder.nodes) = Cardinality(S \cup C)
            /\ graph_builder.edges = S \X C
            /\ C = {} => graph_builder.edges = {} /\ \A n \in graph_builder.nodes : n.kind = "Skill"
            /\ S \cup C = {} => graph_builder.nodes = {}
        /\ graph_builder.step = "careers" => ENABLED AddGraphEdges

\* skills SQL and Python, career Data Analyst: three nodes, the two edges
C7_Witness ==
    /\ graph_builder.step = "done"
    /\ {n.id : n \in graph_builder.nodes} = {"SQL", "Python", "Data Analyst"}
    /\ graph_builder.edges = {<<"SQL", "Data Analyst">>, <<"Python", "Data Analyst">>}
====
